---- MODULE Spec2Model ----
(***************************************************************************)
(* A model of dioxus_style: the runtime StyleRegistry behind the global    *)
(* STYLE_REGISTRY mutex (dioxus_style/src/runtime_injector.rs), the scope  *)
(* token generator (dioxus_style_macro/src/hash.rs) and the CSS scoping    *)
(* engine (dioxus_style_macro/src/style_parser.rs).                        *)
(*                                                                         *)
(* Text is modelled as a sequence of one-character strings, so that        *)
(* concatenation, splitting and trimming act character by character as in  *)
(* the Rust code.                                                          *)
(*                                                                         *)
(* The module holds one specification per part of the program.  The        *)
(* variables of the parts a specification does not exercise are held at    *)
(* their idle values.                                                      *)
(***************************************************************************)
EXTENDS Integers, Sequences, FiniteSets, TLC

VARIABLES
    \* ---- StyleRegistry (runtime_injector.rs:16-21)
    styles,      \* HashMap<String, String>: a function from the registered hashes to css
    order,       \* Vec<String>: the hashes in insertion order
    \* ---- history of the registry and the result of the last read
    log,         \* the (hash, css) pairs registered since the last clear, in order
    last_all,    \* what the last get_all_styles call returned
    fresh,       \* TRUE while no register/clear followed that call
    \* ---- threads on the global STYLE_REGISTRY (runtime_injector.rs:9-12, 107-131)
    lock,        \* the thread holding the Mutex, or NoThread
    pc,          \* where each thread stands
    calls,       \* how many calls each thread has started
    arg,         \* the <<scope, css>> of each thread's ScopedStyle::new call
    vacant,      \* per thread: the arm the Entry match of register took
    in_site,     \* per thread: the call site of the component it renders, or NoSite
    injected,    \* per thread: the String its inject_styles call is returning
    once,        \* per call site: the state of its lazy_static STYLE_INSTANCE
    lin,         \* the registry the registrations give when applied whole, one
                 \* after the other, in the order in which they took the lock
    \* ---- generate_hash and encode_base62 (hash.rs)
    content,     \* the content argument of two generate_hash calls
    file_path,   \* their file_path argument: <<>> for None, <<p>> for Some(p)
    token,       \* the String each call returned
    num,         \* the u64 given to encode_base62
    encoded,     \* the String encode_base62 returned
    hpc,         \* which of the calls have been made
    \* ---- parse_and_scope (style_parser.rs)
    parts,       \* the blocks the stylesheet was put together from
    in_css,      \* the css argument: the concatenation of parts
    in_scope,    \* the scope argument
    in_minify,   \* the minify argument
    scoped,      \* ScopedCss.scoped of the result
    class_names, \* ScopedCss.class_names of the result, as a set
    cpc,         \* whether parse_and_scope has returned
    \* ---- scope_selector (style_parser.rs)
    in_selector, \* the selector argument
    rewritten,   \* the String scope_selector returned
    sel_names,   \* the class_names set after the call
    spc,         \* whether scope_selector has returned
    \* ---- minify_css (style_parser.rs)
    in_text,     \* the css argument
    minified,    \* the String minify_css returned
    mpc,         \* whether minify_css has returned
    \* ---- the scan of parse_css_rules (style_parser.rs:44-84)
    scan_css,    \* the css argument
    scan_st,     \* the locals: position of chars, current_rule, brace_count, rules
    \* ---- css_impl (macros.rs:117-146)
    macro_content, \* css_content, the value of the literal given to css!
    macro_minify,  \* cfg!(not(debug_assertions))
    macro_scope,   \* scope
    wrapped_css,   \* wrapped_css
    final_css,     \* final_css
    kpc            \* whether css_impl has run

regVars == <<styles, order, log, last_all, fresh>>

concVars == <<lock, pc, calls, arg, vacant, in_site, injected, once, lin>>

concVarsButPc == <<lock, calls, arg, vacant, in_site, injected, once, lin>>

hashVars == <<content, file_path, token, num, encoded, hpc>>

cssVars == <<parts, in_css, in_scope, in_minify, scoped, class_names, cpc>>

selVars == <<in_selector, rewritten, sel_names, spc>>

minVars == <<in_text, minified, mpc>>

scanVars == <<scan_css, scan_st>>

macroVars == <<macro_content, macro_minify, macro_scope, wrapped_css, final_css, kpc>>

vars == <<regVars, concVars, hashVars, cssVars, selVars, minVars, scanVars, macroVars>>

\* what the actions of each part leave alone
outsideReg == <<concVars, hashVars, cssVars, selVars, minVars, scanVars, macroVars>>
outsideConc == <<hashVars, cssVars, selVars, minVars, scanVars, macroVars>>
outsideHash == <<regVars, concVars, cssVars, selVars, minVars, scanVars, macroVars>>
outsideCss == <<regVars, concVars, hashVars, selVars, minVars, scanVars, macroVars>>
outsideSel ==
    <<regVars, concVars, hashVars, parts, in_css, in_minify, scoped, class_names, cpc,
      minVars, scanVars, macroVars>>
outsideMin == <<regVars, concVars, hashVars, cssVars, selVars, scanVars, macroVars>>
outsideScan == <<regVars, concVars, hashVars, cssVars, selVars, minVars, macroVars>>
outsideMacro == <<regVars, concVars, hashVars, cssVars, selVars, minVars, scanVars>>

-----------------------------------------------------------------------------
(* Bounds of the model *)

\* at most this many register calls between two clears
MaxRegs == 4

\* the threads that use the global registry, and the calls each one makes
NumThreads == 2
MaxCalls == 2

-----------------------------------------------------------------------------
(* Text helpers *)

NL == "\n"

\* the concatenation of a sequence of texts
RECURSIVE Flatten(_)
Flatten(ss) == IF ss = <<>> THEN <<>> ELSE Head(ss) \o Flatten(Tail(ss))

\* the hashes and css texts the registry specifications register
RegHashes == {"a", "b", "c"}
RegTexts == {<<>>, <<"p">>, <<"q", "r">>}

-----------------------------------------------------------------------------
(* StyleRegistry: runtime_injector.rs:23-105 *)

\* StyleRegistry::new: both collections empty
EmptyRegistry == [styles |-> <<>>, order |-> <<>>]

\* HashMap::insert through either arm of the Entry match
MapInsert(map, hash, css) ==
    [h \in (DOMAIN map) \cup {hash} |-> IF h = hash THEN css ELSE map[h]]

\* register, with the push on every call: a re-registration is listed again
register_always_push(reg, hash, css) ==
    [styles |-> MapInsert(reg.styles, hash, css),
     order  |-> Append(reg.order, hash)]

\* register, keeping the first text of an occupied entry
register_keep_first(reg, hash, css) ==
    IF hash \in DOMAIN reg.styles
    THEN reg
    ELSE [styles |-> MapInsert(reg.styles, hash, css),
          order  |-> Append(reg.order, hash)]

\* StyleRegistry::register: an occupied entry gets the new css and order is
\* left alone; a vacant entry is inserted and its hash pushed onto order
register(reg, hash, css) ==
    IF hash \in DOMAIN reg.styles
    THEN [styles |-> MapInsert(reg.styles, hash, css),
          order  |-> reg.order]
    ELSE [styles |-> MapInsert(reg.styles, hash, css),
          order  |-> Append(reg.order, hash)]

\* the loop of get_all_styles over order: css and a newline for every hash
\* that styles.get finds
RECURSIVE AllStylesLoop(_, _)
AllStylesLoop(map, ord) ==
    IF ord = <<>> THEN <<>>
    ELSE (IF Head(ord) \in DOMAIN map
          THEN map[Head(ord)] \o <<NL>>
          ELSE <<>>)
         \o AllStylesLoop(map, Tail(ord))

\* StyleRegistry::get_all_styles
get_all_styles(reg) ==
    IF reg.order = <<>> THEN <<>> ELSE AllStylesLoop(reg.styles, reg.order)

\* StyleRegistry::contains
contains(reg, hash) == hash \in DOMAIN reg.styles

\* StyleRegistry::clear
clear(reg) == [styles |-> <<>>, order |-> <<>>]

\* StyleRegistry::len
len(reg) == Cardinality(DOMAIN reg.styles)

\* StyleRegistry::is_empty
is_empty(reg) == DOMAIN reg.styles = {}

\* the registry held in the variables
Registry == [styles |-> styles, order |-> order]

-----------------------------------------------------------------------------
(* The idle values of the parts a specification does not exercise *)

Threads == 1..NumThreads
NoThread == 0
NoSite == "none"
NoArg == <<"", <<>>>>

\* the scoped_style! call sites of the program: each expands to a lazy_static
\* STYLE_INSTANCE of its own, with the scope and css fixed at compile time
Sites == {"s1", "s2"}
SiteScope(s) == IF s = "s1" THEN "a" ELSE "b"
SiteCss(s) == IF s = "s1" THEN <<"p">> ELSE <<"q", "r">>

ConcIdle ==
    /\ lock = NoThread
    /\ pc = [t \in Threads |-> "idle"]
    /\ calls = [t \in Threads |-> 0]
    /\ arg = [t \in Threads |-> NoArg]
    /\ vacant = [t \in Threads |-> FALSE]
    /\ in_site = [t \in Threads |-> NoSite]
    /\ injected = [t \in Threads |-> <<>>]
    /\ once = [s \in Sites |-> "incomplete"]
    /\ lin = EmptyRegistry

\* a u64 is held as four 16-bit limbs, the most significant first
Zero64 == <<0, 0, 0, 0>>

HashIdle ==
    /\ content = <<>>
    /\ file_path = <<>>
    /\ token = <<>>
    /\ num = Zero64
    /\ encoded = <<>>
    /\ hpc = "idle"

CssIdle ==
    /\ parts = <<>>
    /\ in_css = <<>>
    /\ in_scope = <<>>
    /\ in_minify = FALSE
    /\ scoped = <<>>
    /\ class_names = {}
    /\ cpc = "idle"

SelIdle ==
    /\ in_selector = <<>>
    /\ rewritten = <<>>
    /\ sel_names = {}
    /\ spc = "idle"

MinIdle ==
    /\ in_text = <<>>
    /\ minified = <<>>
    /\ mpc = "idle"

NoScan == [i |-> 0, current_rule |-> <<>>, brace_count |-> 0, rules |-> <<>>]

ScanIdle ==
    /\ scan_css = <<>>
    /\ scan_st = NoScan

MacroIdle ==
    /\ macro_content = <<>>
    /\ macro_minify = FALSE
    /\ macro_scope = <<>>
    /\ wrapped_css = <<>>
    /\ final_css = <<>>
    /\ kpc = "idle"

\* the parts of the text tools that a specification does not exercise
ToolsIdle == MinIdle /\ ScanIdle /\ MacroIdle

-----------------------------------------------------------------------------
(* SpecReg: one StyleRegistry driven by register, clear and get_all_styles *)
(* calls, as the unit tests of runtime_injector.rs drive it.               *)

RegIdle ==
    /\ styles = <<>>
    /\ order = <<>>
    /\ log = <<>>
    /\ last_all = <<>>
    /\ fresh = FALSE

InitReg == RegIdle /\ ConcIdle /\ HashIdle /\ CssIdle /\ SelIdle /\ ToolsIdle

DoRegister(hash, css) ==
    /\ Len(log) < MaxRegs
    /\ LET r == register(Registry, hash, css)
       IN /\ styles' = r.styles
          /\ order' = r.order
    /\ log' = Append(log, <<hash, css>>)
    /\ last_all' = <<>>
    /\ fresh' = FALSE
    /\ UNCHANGED outsideReg

DoClear ==
    /\ LET r == clear(Registry)
       IN /\ styles' = r.styles
          /\ order' = r.order
    /\ log' = <<>>
    /\ last_all' = <<>>
    /\ fresh' = FALSE
    /\ UNCHANGED outsideReg

DoGetAllStyles ==
    /\ last_all' = get_all_styles(Registry)
    /\ fresh' = TRUE
    /\ UNCHANGED <<styles, order, log>>
    /\ UNCHANGED outsideReg

NextReg ==
    \/ \E hash \in RegHashes, css \in RegTexts : DoRegister(hash, css)
    \/ DoClear
    \/ DoGetAllStyles

SpecReg == InitReg /\ [][NextReg]_vars

-----------------------------------------------------------------------------
(* What the history says the registry holds *)

\* the hashes of a history, each once, in the order of their first registration
RECURSIVE FirstSeen(_)
FirstSeen(l) ==
    IF l = <<>> THEN <<>>
    ELSE LET front == SubSeq(l, 1, Len(l) - 1)
             h == l[Len(l)][1]
             seen == FirstSeen(front)
         IN IF \E i \in 1..Len(front) : front[i][1] = h
            THEN seen
            ELSE Append(seen, h)

\* the css of the last registration of hash in a history that registers it
LatestText(l, hash) ==
    LET last == CHOOSE i \in 1..Len(l) :
                    /\ l[i][1] = hash
                    /\ \A j \in (i + 1)..Len(l) : l[j][1] # hash
    IN l[last][2]

\* the text the history calls for: per first-seen hash its latest css and a newline
ExpectedAll(l) ==
    LET seen == FirstSeen(l)
    IN Flatten([i \in 1..Len(seen) |-> LatestText(l, seen[i]) \o <<NL>>])

\* C1: get_all_styles returns, for the distinct hashes registered since the
\* last clear in the order of their first registration, each hash's most
\* recently registered css followed by one newline; a re-registration never
\* moves a hash, and nothing registered gives the empty string.
C1_GetAllFirstSeenLatest ==
    /\ get_all_styles(Registry) = ExpectedAll(log)
    /\ fresh => last_all = ExpectedAll(log)
    /\ (log = <<>>) => get_all_styles(Registry) = <<>>

\* a read taken after "a", "b" were registered and "a" re-registered with
\* another css: the read lists a's new css first
C1_Witness ==
    /\ fresh
    /\ Len(log) >= 3
    /\ log[1][1] = "a" /\ log[2][1] = "b" /\ log[3][1] = "a"
    /\ log[1][2] # log[3][2]
    /\ last_all = log[3][2] \o <<NL>> \o log[2][2] \o <<NL>>

\* C2: order holds no hash twice and exactly the keys of styles; len() is the
\* number of distinct hashes registered since the last clear and contains(h)
\* is true exactly for those.
C2_OrderMatchesStyles ==
    LET registered == {log[i][1] : i \in 1..Len(log)}
    IN /\ \A i, j \in 1..Len(order) : order[i] = order[j] => i = j
       /\ {order[i] : i \in 1..Len(order)} = DOMAIN styles
       /\ len(Registry) = Cardinality(registered)
       /\ \A h \in RegHashes : contains(Registry, h) <=> h \in registered

\* a hash registered twice next to another one: two entries, not three
C2_Witness ==
    /\ Len(log) = 3
    /\ log[1][1] = log[3][1]
    /\ log[1][1] # log[2][1]
    /\ len(Registry) = 2

-----------------------------------------------------------------------------
(* SpecConc: threads calling ScopedStyle::new and inject_styles on the     *)
(* global STYLE_REGISTRY, directly or from a component generated by        *)
(* with_css / component_with_css, which first evaluates its scoped_style!  *)
(* call site and then inject_styles.  Each call is modelled statement by   *)
(* statement: the lock, the steps of register or get_all_styles under it,  *)
(* and the drop of the guard.                                              *)

ConcHashes == {"a", "b"}
ConcTexts == {<<"p">>, <<"q", "r">>}

\* Mutex::lock taken without waiting for the holder to release it
LockAvailable_unchecked == TRUE

\* Mutex::lock returns only when no thread holds the guard
LockAvailable == lock = NoThread

\* the statements executed while the guard is alive
InCritical == {"reg_entry", "reg_insert", "reg_push", "new_unlock",
               "inj_read", "inj_unlock"}

InitConc == RegIdle /\ ConcIdle /\ HashIdle /\ CssIdle /\ SelIdle /\ ToolsIdle

\* a thread calls ScopedStyle::new(scope, css) directly
StartNew(t, scope, css) ==
    /\ pc[t] = "idle"
    /\ calls[t] < MaxCalls
    /\ calls' = [calls EXCEPT ![t] = @ + 1]
    /\ arg' = [arg EXCEPT ![t] = <<scope, css>>]
    /\ pc' = [pc EXCEPT ![t] = "new_lock"]
    /\ UNCHANGED <<regVars, lock, vacant, in_site, injected, once, lin>>
    /\ UNCHANGED outsideConc

\* a thread calls inject_styles() directly
StartInject(t) ==
    /\ pc[t] = "idle"
    /\ calls[t] < MaxCalls
    /\ calls' = [calls EXCEPT ![t] = @ + 1]
    /\ pc' = [pc EXCEPT ![t] = "inj_lock"]
    /\ UNCHANGED <<regVars, lock, arg, vacant, in_site, injected, once, lin>>
    /\ UNCHANGED outsideConc

\* a thread renders a with_css component whose scoped_style! is call site s
StartRender(t, s) ==
    /\ pc[t] = "idle"
    /\ calls[t] < MaxCalls
    /\ calls' = [calls EXCEPT ![t] = @ + 1]
    /\ in_site' = [in_site EXCEPT ![t] = s]
    /\ pc' = [pc EXCEPT ![t] = "site_deref"]
    /\ UNCHANGED <<regVars, lock, arg, vacant, injected, once, lin>>
    /\ UNCHANGED outsideConc

\* STYLE_INSTANCE.clone() with the initialiser run on every evaluation
SiteInit_always(t) ==
    /\ pc[t] = "site_deref"
    /\ once[in_site[t]] # "running"
    /\ once' = [once EXCEPT ![in_site[t]] = "running"]
    /\ arg' = [arg EXCEPT ![t] = <<SiteScope(in_site[t]), SiteCss(in_site[t])>>]
    /\ pc' = [pc EXCEPT ![t] = "new_lock"]
    /\ UNCHANGED <<regVars, lock, calls, vacant, in_site, injected, lin>>
    /\ UNCHANGED outsideConc

\* STYLE_INSTANCE.clone(): the first thread to dereference the lazy_static
\* runs its initialiser, ScopedStyle::new(scope, css)
SiteInit(t) ==
    /\ pc[t] = "site_deref"
    /\ once[in_site[t]] = "incomplete"
    /\ once' = [once EXCEPT ![in_site[t]] = "running"]
    /\ arg' = [arg EXCEPT ![t] = <<SiteScope(in_site[t]), SiteCss(in_site[t])>>]
    /\ pc' = [pc EXCEPT ![t] = "new_lock"]
    /\ UNCHANGED <<regVars, lock, calls, vacant, in_site, injected, lin>>
    /\ UNCHANGED outsideConc

\* STYLE_INSTANCE.clone() on an initialised lazy_static: no registration; a
\* thread that finds the initialiser running waits here until it is complete
SiteReady(t) ==
    /\ pc[t] = "site_deref"
    /\ once[in_site[t]] = "complete"
    /\ pc' = [pc EXCEPT ![t] = "inj_lock"]
    /\ UNCHANGED <<regVars, lock, calls, arg, vacant, in_site, injected, once, lin>>
    /\ UNCHANGED outsideConc

\* ScopedStyle::new: STYLE_REGISTRY.lock().expect(..)
NewLock(t) ==
    /\ pc[t] = "new_lock"
    /\ LockAvailable
    /\ lock' = t
    /\ lin' = register(lin, arg[t][1], arg[t][2])
    /\ pc' = [pc EXCEPT ![t] = "reg_entry"]
    /\ UNCHANGED <<regVars, calls, arg, vacant, in_site, injected, once>>
    /\ UNCHANGED outsideConc

\* register: match self.styles.entry(hash.clone())
RegEntry(t) ==
    /\ pc[t] = "reg_entry"
    /\ vacant' = [vacant EXCEPT ![t] = arg[t][1] \notin DOMAIN styles]
    /\ pc' = [pc EXCEPT ![t] = "reg_insert"]
    /\ UNCHANGED <<regVars, lock, calls, arg, in_site, injected, once, lin>>
    /\ UNCHANGED outsideConc

\* register: entry.insert(css), in either arm
RegInsert(t) ==
    /\ pc[t] = "reg_insert"
    /\ styles' = MapInsert(styles, arg[t][1], arg[t][2])
    /\ pc' = [pc EXCEPT ![t] = IF vacant[t] THEN "reg_push" ELSE "new_unlock"]
    /\ UNCHANGED <<order, log, last_all, fresh, concVarsButPc>>
    /\ UNCHANGED outsideConc

\* register: self.order.push(hash), in the Vacant arm
RegPush(t) ==
    /\ pc[t] = "reg_push"
    /\ order' = Append(order, arg[t][1])
    /\ pc' = [pc EXCEPT ![t] = "new_unlock"]
    /\ UNCHANGED <<styles, log, last_all, fresh, concVarsButPc>>
    /\ UNCHANGED outsideConc

\* the end of the register statement without the drop of the guard
NewUnlock_leak(t) ==
    /\ pc[t] = "new_unlock"
    /\ once' = IF in_site[t] = NoSite THEN once
               ELSE [once EXCEPT ![in_site[t]] = "complete"]
    /\ arg' = [arg EXCEPT ![t] = NoArg]
    /\ vacant' = [vacant EXCEPT ![t] = FALSE]
    /\ pc' = [pc EXCEPT ![t] = IF in_site[t] = NoSite THEN "idle" ELSE "inj_lock"]
    /\ UNCHANGED <<regVars, lock, calls, in_site, injected, lin>>
    /\ UNCHANGED outsideConc

\* the end of the register statement drops the guard and ScopedStyle::new
\* returns; when it ran as the initialiser of a call site, the lazy_static is
\* complete and the component goes on to inject_styles
NewUnlock(t) ==
    /\ pc[t] = "new_unlock"
    /\ lock' = NoThread
    /\ once' = IF in_site[t] = NoSite THEN once
               ELSE [once EXCEPT ![in_site[t]] = "complete"]
    /\ arg' = [arg EXCEPT ![t] = NoArg]
    /\ vacant' = [vacant EXCEPT ![t] = FALSE]
    /\ pc' = [pc EXCEPT ![t] = IF in_site[t] = NoSite THEN "idle" ELSE "inj_lock"]
    /\ UNCHANGED <<regVars, calls, in_site, injected, lin>>
    /\ UNCHANGED outsideConc

\* inject_styles: STYLE_REGISTRY.lock().expect(..)
InjLock(t) ==
    /\ pc[t] = "inj_lock"
    /\ LockAvailable
    /\ lock' = t
    /\ pc' = [pc EXCEPT ![t] = "inj_read"]
    /\ UNCHANGED <<regVars, calls, arg, vacant, in_site, injected, once, lin>>
    /\ UNCHANGED outsideConc

\* inject_styles: .get_all_styles() on the guarded registry
InjRead(t) ==
    /\ pc[t] = "inj_read"
    /\ injected' = [injected EXCEPT ![t] = get_all_styles(Registry)]
    /\ pc' = [pc EXCEPT ![t] = "inj_unlock"]
    /\ UNCHANGED <<regVars, lock, calls, arg, vacant, in_site, once, lin>>
    /\ UNCHANGED outsideConc

\* inject_styles: the guard is dropped and the String returned to the
\* caller; for a component this ends the render
InjUnlock(t) ==
    /\ pc[t] = "inj_unlock"
    /\ lock' = NoThread
    /\ injected' = [injected EXCEPT ![t] = <<>>]
    /\ in_site' = [in_site EXCEPT ![t] = NoSite]
    /\ pc' = [pc EXCEPT ![t] = "idle"]
    /\ UNCHANGED <<regVars, calls, arg, vacant, once, lin>>
    /\ UNCHANGED outsideConc

\* a thread that has made its calls ends
Finish(t) ==
    /\ pc[t] = "idle"
    /\ calls[t] = MaxCalls
    /\ pc' = [pc EXCEPT ![t] = "done"]
    /\ UNCHANGED <<regVars, lock, calls, arg, vacant, in_site, injected, once, lin>>
    /\ UNCHANGED outsideConc

ThreadStep(t) ==
    \/ \E scope \in ConcHashes, css \in ConcTexts : StartNew(t, scope, css)
    \/ StartInject(t)
    \/ \E s \in Sites : StartRender(t, s)
    \/ SiteInit(t)
    \/ SiteReady(t)
    \/ NewLock(t)
    \/ RegEntry(t)
    \/ RegInsert(t)
    \/ RegPush(t)
    \/ NewUnlock(t)
    \/ InjLock(t)
    \/ InjRead(t)
    \/ InjUnlock(t)
    \/ Finish(t)

NextConc == \E t \in Threads : ThreadStep(t)

SpecConc == InitConc /\ [][NextConc]_vars

\* the scheduler lets every thread that can take a step take one
FairConc == \A t \in Threads : WF_vars(ThreadStep(t))

SpecConcFair == InitConc /\ [][NextConc]_vars /\ FairConc

-----------------------------------------------------------------------------
(* Claims on the threads *)

\* C3: every ScopedStyle::new and inject_styles call takes effect atomically
\* under the mutex: at most one thread is between lock and unlock; whenever
\* the lock is free the registry is the one the registrations give when each
\* is applied whole, in the order in which they acquired the lock, so that
\* it holds every registered hash exactly once; and the String an
\* inject_styles call returns is the text of that registry with every
\* registration that took the lock before it applied whole.
C3_CallsAtomic ==
    /\ Cardinality({t \in Threads : pc[t] \in InCritical}) <= 1
    /\ \A t \in Threads : pc[t] \in InCritical => lock = t
    /\ lock = NoThread =>
          /\ styles = lin.styles
          /\ order = lin.order
          /\ \A i, j \in 1..Len(order) : order[i] = order[j] => i = j
          /\ {order[i] : i \in 1..Len(order)} = DOMAIN styles
    /\ \A t \in Threads : pc[t] = "inj_unlock" =>
          injected[t] = get_all_styles(lin)

\* thread 1 returns a text with the css of two hashes, one of them
\* registered twice, while thread 2 waits for the lock
C3_Witness ==
    /\ pc[1] = "inj_unlock"
    /\ pc[2] \in {"new_lock", "inj_lock"}
    /\ order = <<"b", "a">>
    /\ calls[1] + calls[2] >= 4
    /\ injected[1] = styles["b"] \o <<NL>> \o styles["a"] \o <<NL>>

\* C4: under fair scheduling a thread that asks for the registry lock, from
\* ScopedStyle::new or inject_styles, directly or from a with_css component,
\* gets it, a thread that holds it releases it, and every thread completes
\* all its calls.
C4_NoIndefiniteBlocking ==
    /\ \A t \in Threads : (pc[t] \in {"new_lock", "inj_lock"}) ~> (lock = t)
    /\ \A t \in Threads : (lock = t) ~> (lock # t)
    /\ \A t \in Threads : (pc[t] = "site_deref") ~> (pc[t] = "inj_lock")
    /\ <>(\A t \in Threads : pc[t] = "done")

\* thread 1, initialising the call site of a with_css component, waits for
\* the lock while thread 2 holds it
C4_Witness ==
    /\ pc[1] = "new_lock"
    /\ in_site[1] = "s1"
    /\ once["s1"] = "running"
    /\ lock = 2
    /\ pc[2] = "site_deref" \/ pc[2] \in InCritical

-----------------------------------------------------------------------------
(* hash.rs: generate_hash and encode_base62 *)

\* the longest content and file_path given to generate_hash
MaxContentLen == 4
MaxPathLen == 1

\* all texts over an alphabet up to a length
TextsUpTo(alphabet, n) == UNION {[1..k -> alphabet] : k \in 0..n}

\* the characters of the contents and paths hashed
HashAlphabet == {"a", ":"}
Contents == TextsUpTo(HashAlphabet, MaxContentLen)
\* Option<&str>: None and Some(path), a path having a character at least
FilePaths ==
    {<<>>} \cup {<<path>> : path \in TextsUpTo(HashAlphabet, MaxPathLen) \ {<<>>}}

\* 2^16, the base of the limbs of a u64
LimbBase == 65536

\* the limbs of the u64 values given to encode_base62
LimbValues == {0, 1, 61, 62, 65535}
Nums == [1..4 -> LimbValues]

\* num == 0 and num > 0 on a u64
IsZero64(n) == n = Zero64

\* long division of a u64 by 62, limb by limb from the most significant:
\* <<quotient, remainder>>
RECURSIVE DivLimbs(_, _, _)
DivLimbs(limbs, rem, quot) ==
    IF limbs = <<>> THEN <<quot, rem>>
    ELSE LET cur == rem * LimbBase + Head(limbs)
         IN DivLimbs(Tail(limbs), cur % 62, Append(quot, cur \div 62))

\* num / 62 and num % 62 on a u64
Div62(n) == DivLimbs(n, 0, <<>>)[1]
Mod62(n) == DivLimbs(n, 0, <<>>)[2]

\* const BASE62_CHARS
BASE62_CHARS ==
    <<"0", "1", "2", "3", "4", "5", "6", "7", "8", "9",
      "a", "b", "c", "d", "e", "f", "g", "h", "i", "j", "k", "l", "m",
      "n", "o", "p", "q", "r", "s", "t", "u", "v", "w", "x", "y", "z",
      "A", "B", "C", "D", "E", "F", "G", "H", "I", "J", "K", "L", "M",
      "N", "O", "P", "Q", "R", "S", "T", "U", "V", "W", "X", "Y", "Z">>

\* Vec::reverse
Reverse(seq) == [i \in 1..Len(seq) |-> seq[Len(seq) + 1 - i]]

\* the while loop of encode_base62: the digits, least significant first
RECURSIVE Base62Loop(_, _)
Base62Loop(n, result) ==
    IF IsZero64(n) THEN result
    ELSE Base62Loop(Div62(n), Append(result, BASE62_CHARS[Mod62(n) + 1]))

\* encode_base62 without result.reverse()
encode_base62_no_reverse(n) ==
    IF IsZero64(n) THEN <<"0">> ELSE Base62Loop(n, <<>>)

\* encode_base62
encode_base62(n) ==
    IF IsZero64(n) THEN <<"0">> ELSE Reverse(Base62Loop(n, <<>>))

\* the bytes generate_hash hashes: file_path and "::" when there is a path,
\* then content
HasherInput(c, fp) ==
    (IF fp # <<>> THEN fp[1] \o <<":", ":">> ELSE <<>>) \o c

\* xxh3_64 of the xxhash_rust crate, taken as injective on the texts of the
\* model: every character is a base-4 digit 1..3 of the value, so that two
\* texts of at most 32 characters have the same value only when equal
CharCode(ch) == IF ch = "a" THEN 1 ELSE IF ch = ":" THEN 2 ELSE 3
RECURSIVE Pow4(_)
Pow4(k) == IF k = 0 THEN 1 ELSE 4 * Pow4(k - 1)
RECURSIVE SumCodes(_, _, _)
SumCodes(bytes, from, to) ==
    IF from > to THEN 0
    ELSE CharCode(bytes[from]) * Pow4((from - 1) % 8)
         + SumCodes(bytes, from + 1, to)
HashLimb(bytes, k) ==
    LET lo == 8 * k + 1
        hi == IF 8 * k + 8 < Len(bytes) THEN 8 * k + 8 ELSE Len(bytes)
    IN SumCodes(bytes, lo, hi)
xxh3_64(bytes) ==
    <<HashLimb(bytes, 3), HashLimb(bytes, 2), HashLimb(bytes, 1), HashLimb(bytes, 0)>>

\* format!("sc_{}", encode_base62(hash))
FormatToken(hash) == <<"s", "c", "_">> \o encode_base62(hash)

\* generate_hash
generate_hash(c, fp) == FormatToken(xxh3_64(HasherInput(c, fp)))

-----------------------------------------------------------------------------
(* SpecHash: either two generate_hash calls, each on any content and        *)
(* file_path, or one encode_base62 call on a u64.                          *)

InitHash ==
    /\ RegIdle /\ ConcIdle /\ CssIdle /\ SelIdle /\ ToolsIdle
    /\ encoded = <<>>
    /\ token = <<>>
    /\ \/ /\ hpc = "start"
          /\ content \in {<<c>> : c \in Contents}
          /\ file_path \in {<<fp>> : fp \in FilePaths}
          /\ num = Zero64
       \/ /\ hpc = "encode"
          /\ content = <<>>
          /\ file_path = <<>>
          /\ num \in Nums

GenerateFirst ==
    /\ hpc = "start"
    /\ token' = <<generate_hash(content[1], file_path[1])>>
    /\ hpc' = "one"
    /\ UNCHANGED <<content, file_path, num, encoded>>
    /\ UNCHANGED outsideHash

GenerateSecond(c, fp) ==
    /\ hpc = "one"
    /\ content' = Append(content, c)
    /\ file_path' = Append(file_path, fp)
    /\ token' = Append(token, generate_hash(c, fp))
    /\ hpc' = "done"
    /\ UNCHANGED <<num, encoded>>
    /\ UNCHANGED outsideHash

EncodeNum ==
    /\ hpc = "encode"
    /\ encoded' = encode_base62(num)
    /\ hpc' = "encoded"
    /\ UNCHANGED <<content, file_path, token, num>>
    /\ UNCHANGED outsideHash

NextHash ==
    \/ GenerateFirst
    \/ \E c \in Contents, fp \in FilePaths : GenerateSecond(c, fp)
    \/ EncodeNum

SpecHash == InitHash /\ [][NextHash]_vars

-----------------------------------------------------------------------------
(* Claims on the scope token *)

\* C5: with the hash injective, two generate_hash calls return the same
\* token if and only if their (content, file_path) pairs are equal.
C5_SameTokenIffSamePair ==
    hpc = "done" =>
        (token[1] = token[2]
            <=> (content[1] = content[2] /\ file_path[1] = file_path[2]))

\* the alphabet 0-9, a-z, A-Z of the base-62 digits
Base62Digits == <<"0", "1", "2", "3", "4", "5", "6", "7", "8", "9">>
Base62Lower ==
    <<"a", "b", "c", "d", "e", "f", "g", "h", "i", "j", "k", "l", "m",
      "n", "o", "p", "q", "r", "s", "t", "u", "v", "w", "x", "y", "z">>
Base62Upper ==
    <<"A", "B", "C", "D", "E", "F", "G", "H", "I", "J", "K", "L", "M",
      "N", "O", "P", "Q", "R", "S", "T", "U", "V", "W", "X", "Y", "Z">>
Base62Alphabet == Base62Digits \o Base62Lower \o Base62Upper

\* the value of a base-62 digit
DigitValue(ch) == (CHOOSE i \in 1..62 : Base62Alphabet[i] = ch) - 1

\* 62 * value + d on limbs, the least significant limb first; the last
\* element of the result is the carry out of the 64 bits
RECURSIVE MulAddLimbs(_, _)
MulAddLimbs(limbsLow, carry) ==
    IF limbsLow = <<>> THEN <<carry>>
    ELSE LET t == Head(limbsLow) * 62 + carry
         IN <<t % LimbBase>> \o MulAddLimbs(Tail(limbsLow), t \div LimbBase)

\* the number a digit string denotes, most significant digit first, as the
\* four limbs of a u64 followed by what does not fit in 64 bits
RECURSIVE Base62Value(_)
Base62Value(digits) ==
    IF digits = <<>> THEN <<0, 0, 0, 0, 0>>
    ELSE LET front == Base62Value(SubSeq(digits, 1, Len(digits) - 1))
             low == Reverse(SubSeq(front, 1, 4))
             r == MulAddLimbs(low, DigitValue(digits[Len(digits)]))
         IN <<r[4], r[3], r[2], r[1], front[5] * 62 + r[5]>>

\* digits is the positional base-62 representation of the u64 n
IsBase62Of(digits, n) ==
    /\ Len(digits) >= 1
    /\ \A i \in 1..Len(digits) : \E j \in 1..62 : Base62Alphabet[j] = digits[i]
    /\ (n = Zero64) => digits = <<"0">>
    /\ (n # Zero64) => digits[1] # "0"
    /\ Base62Value(digits) = n \o <<0>>

\* token is "sc_" followed by the base-62 representation of the hash of the
\* bytes of the call
IsTokenOf(tok, c, fp) ==
    /\ Len(tok) > 3
    /\ SubSeq(tok, 1, 3) = <<"s", "c", "_">>
    /\ IsBase62Of(SubSeq(tok, 4, Len(tok)), xxh3_64(HasherInput(c, fp)))

\* C6: encode_base62(n) is the positional base-62 representation of n over
\* 0-9, a-z, A-Z, most significant digit first: "0" for 0, otherwise with no
\* leading '0', and its digits evaluate back to n; every token generate_hash
\* returns is "sc_" followed by such a digit string.
C6_Base62Positional ==
    /\ hpc = "encoded" => IsBase62Of(encoded, num)
    /\ hpc \in {"one", "done"} => IsTokenOf(token[1], content[1], file_path[1])
    /\ hpc = "done" => IsTokenOf(token[2], content[2], file_path[2])

\* u64::MAX encoded in eleven digits
C6_Witness ==
    /\ hpc = "encoded"
    /\ num = <<65535, 65535, 65535, 65535>>
    /\ encoded = <<"l", "Y", "G", "h", "A", "1", "6", "a", "h", "y", "f">>

-----------------------------------------------------------------------------
(* style_parser.rs: characters and &str helpers *)

QUOTE == "\""

LetterChars ==
    {"a", "b", "c", "d", "e", "f", "g", "h", "i", "j", "k", "l", "m",
     "n", "o", "p", "q", "r", "s", "t", "u", "v", "w", "x", "y", "z",
     "A", "B", "C", "D", "E", "F", "G", "H", "I", "J", "K", "L", "M",
     "N", "O", "P", "Q", "R", "S", "T", "U", "V", "W", "X", "Y", "Z"}
DigitChars == {"0", "1", "2", "3", "4", "5", "6", "7", "8", "9"}

\* char::is_alphabetic, char::is_alphanumeric, char::is_whitespace
IsAlphabetic(ch) == ch \in LetterChars
IsAlphanumeric(ch) == ch \in LetterChars \cup DigitChars
IsWhitespace(ch) == ch \in {" ", "\n", "\t", "\r"}

\* str::trim
RECURSIVE TrimStart(_)
TrimStart(t) ==
    IF t # <<>> /\ IsWhitespace(Head(t)) THEN TrimStart(Tail(t)) ELSE t
RECURSIVE TrimEnd(_)
TrimEnd(t) ==
    IF t # <<>> /\ IsWhitespace(t[Len(t)])
    THEN TrimEnd(SubSeq(t, 1, Len(t) - 1))
    ELSE t
Trim(t) == TrimEnd(TrimStart(t))

\* str::find(ch) and str::rfind(ch): the index of the first and of the last
\* occurrence, 0 for None
Find(t, ch) ==
    IF \E i \in 1..Len(t) : t[i] = ch
    THEN CHOOSE i \in 1..Len(t) : t[i] = ch /\ \A j \in 1..(i - 1) : t[j] # ch
    ELSE 0
RFind(t, ch) ==
    IF \E i \in 1..Len(t) : t[i] = ch
    THEN CHOOSE i \in 1..Len(t) : t[i] = ch /\ \A j \in (i + 1)..Len(t) : t[j] # ch
    ELSE 0

\* str::split(ch): the pieces between the occurrences of ch, empty ones kept
RECURSIVE Split(_, _)
Split(t, ch) ==
    LET at == Find(t, ch)
    IN IF at = 0 THEN <<t>>
       ELSE <<SubSeq(t, 1, at - 1)>> \o Split(SubSeq(t, at + 1, Len(t)), ch)

\* [String]::join(sep)
RECURSIVE Join(_, _)
Join(ts, sep) ==
    IF ts = <<>> THEN <<>>
    ELSE IF Len(ts) = 1 THEN ts[1]
    ELSE ts[1] \o sep \o Join(Tail(ts), sep)

\* the index after the comment whose "/*" ends before index i: the inner
\* while loop that both parse_css_rules and minify_css run on '/' '*'
RECURSIVE SkipComment(_, _)
SkipComment(t, i) ==
    IF i > Len(t) THEN i
    ELSE IF t[i] = "*" /\ i + 1 <= Len(t) /\ t[i + 1] = "/" THEN i + 2
    ELSE SkipComment(t, i + 1)

\* ch == '/' && chars.peek() == Some(&'*')
OpensComment(t, i) == t[i] = "/" /\ i + 1 <= Len(t) /\ t[i + 1] = "*"

-----------------------------------------------------------------------------
(* parse_css_rules: style_parser.rs:44-84 *)

\* the locals of parse_css_rules before the loop; i is the position of chars
ParseStart == [i |-> 1, current_rule |-> <<>>, brace_count |-> 0, rules |-> <<>>]

\* if brace_count == 0, on the counter a '}' has just decremented
ClosesRule_at_or_below(count) == count <= 0

ClosesRule(count) == count = 0

\* one iteration of the while loop of parse_css_rules
ParseStep(t, st) ==
    IF OpensComment(t, st.i)
    THEN [st EXCEPT !.i = SkipComment(t, st.i + 2)]
    ELSE LET ch == t[st.i]
             current == Append(st.current_rule, ch)
         IN IF ch = "{"
            THEN [st EXCEPT !.i = @ + 1, !.current_rule = current,
                            !.brace_count = @ + 1]
            ELSE IF ch = "}"
            THEN IF ClosesRule(st.brace_count - 1)
                 THEN [i |-> st.i + 1,
                       current_rule |-> <<>>,
                       brace_count |-> st.brace_count - 1,
                       rules |-> IF Trim(current) # <<>>
                                 THEN Append(st.rules, Trim(current))
                                 ELSE st.rules]
                 ELSE [st EXCEPT !.i = @ + 1, !.current_rule = current,
                                 !.brace_count = @ - 1]
            ELSE [st EXCEPT !.i = @ + 1, !.current_rule = current]

RECURSIVE ParseLoop(_, _)
ParseLoop(t, st) ==
    IF st.i > Len(t) THEN st ELSE ParseLoop(t, ParseStep(t, st))

\* parse_css_rules
parse_css_rules(t) == ParseLoop(t, ParseStart).rules

-----------------------------------------------------------------------------
(* scope_single_selector and scope_selector: style_parser.rs:114-246 *)

\* the characters of a class or id name, and of an element name
IsNameChar(ch) == IsAlphanumeric(ch) \/ ch = "-" \/ ch = "_"
IsElementChar(ch) == IsAlphanumeric(ch) \/ ch = "-"

\* the index after the run of name characters that starts at i: the
\* while let Some(&next_ch) = chars.peek() loops
RECURSIVE NameEnd(_, _)
NameEnd(t, i) ==
    IF i <= Len(t) /\ IsNameChar(t[i]) THEN NameEnd(t, i + 1) ELSE i
RECURSIVE ElementEnd(_, _)
ElementEnd(t, i) ==
    IF i <= Len(t) /\ IsElementChar(t[i]) THEN ElementEnd(t, i + 1) ELSE i
RECURSIVE SpacesEnd(_, _)
SpacesEnd(t, i) ==
    IF i <= Len(t) /\ t[i] = " " THEN SpacesEnd(t, i + 1) ELSE i

\* the index after the first ']' at or after i, or after the end of the text
RECURSIVE BracketEnd(_, _)
BracketEnd(t, i) ==
    IF i > Len(t) THEN i
    ELSE IF t[i] = "]" THEN i + 1
    ELSE BracketEnd(t, i + 1)

\* the guard of the element arm: ch if ch.is_alphabetic() && at_start
IsElementStart_anywhere(ch, at_start) == IsAlphabetic(ch)

IsElementStart(ch, at_start) == IsAlphabetic(ch) /\ at_start

\* the locals of scope_single_selector before the loop
SingleStart(names) == [i |-> 1, result |-> <<>>, at_start |-> TRUE, names |-> names]

\* one iteration of the while loop of scope_single_selector: the match on ch
SingleStep(t, sc, st) ==
    LET ch == t[st.i]
    IN IF ch = "."
       THEN LET stop == NameEnd(t, st.i + 1)
                class_name == SubSeq(t, st.i + 1, stop - 1)
            IN [i |-> stop,
                result |-> IF class_name # <<>>
                           THEN st.result \o <<".">> \o sc \o <<"_">> \o class_name
                           ELSE st.result,
                at_start |-> FALSE,
                names |-> IF class_name # <<>>
                          THEN st.names \cup {class_name}
                          ELSE st.names]
       ELSE IF ch = "#"
       THEN LET stop == NameEnd(t, st.i + 1)
                id_name == SubSeq(t, st.i + 1, stop - 1)
            IN [i |-> stop,
                result |-> IF id_name # <<>>
                           THEN st.result \o <<"#">> \o sc \o <<"_">> \o id_name
                           ELSE st.result,
                at_start |-> FALSE,
                names |-> st.names]
       ELSE IF ch \in {" ", ">", "+", "~"}
       THEN [i |-> SpacesEnd(t, st.i + 1),
             result |-> Append(st.result, ch),
             at_start |-> TRUE,
             names |-> st.names]
       ELSE IF ch = ":"
       THEN [i |-> st.i + 1,
             result |-> Append(st.result, ch),
             at_start |-> FALSE,
             names |-> st.names]
       ELSE IF ch = "["
       THEN LET stop == BracketEnd(t, st.i + 1)
            IN [i |-> stop,
                result |-> st.result \o SubSeq(t, st.i, stop - 1),
                at_start |-> FALSE,
                names |-> st.names]
       ELSE IF IsElementStart(ch, st.at_start)
       THEN LET stop == ElementEnd(t, st.i + 1)
                element_name == SubSeq(t, st.i, stop - 1)
            IN [i |-> stop,
                result |-> st.result \o element_name
                           \o <<"[", "d", "a", "t", "a", "-", "s", "c", "o", "p", "e",
                                "=", QUOTE>>
                           \o sc \o <<QUOTE, "]">>,
                at_start |-> FALSE,
                names |-> st.names]
       ELSE [i |-> st.i + 1,
             result |-> Append(st.result, ch),
             at_start |-> FALSE,
             names |-> st.names]

RECURSIVE SingleLoop(_, _, _)
SingleLoop(t, sc, st) ==
    IF st.i > Len(t) THEN st ELSE SingleLoop(t, sc, SingleStep(t, sc, st))

\* scope_single_selector: the rewritten selector and the class names so far
scope_single_selector(t, sc, names) ==
    LET Return(st) == [text |-> st.result, names |-> st.names]
    IN Return(SingleLoop(t, sc, SingleStart(names)))

\* the map over the pieces of a selector list, class_names threaded through
RECURSIVE ScopePieces(_, _, _)
ScopePieces(pieces, sc, names) ==
    IF pieces = <<>> THEN [texts |-> <<>>, names |-> names]
    ELSE LET Collect(first, rest) ==
                 [texts |-> <<first.text>> \o rest.texts, names |-> rest.names]
             Map(first) ==
                 Collect(first, ScopePieces(Tail(pieces), sc, first.names))
         IN Map(scope_single_selector(Trim(Head(pieces)), sc, names))

\* scope_selector
scope_selector(t, sc, names) ==
    IF Find(t, ",") = 0
    THEN scope_single_selector(t, sc, names)
    ELSE LET JoinAll(all) ==
                 [text |-> Join(all.texts, <<",", " ">>), names |-> all.names]
         IN JoinAll(ScopePieces(Split(t, ","), sc, names))

-----------------------------------------------------------------------------
(* scope_rule, minify_css and parse_and_scope: style_parser.rs:15-40, 88-110, 250-285 *)

\* scope_rule: Option<String> as some/text, and the class names so far
scope_rule(rule, sc, names) ==
    LET trimmed == Trim(rule)
        brace_pos == Find(trimmed, "{")
    IN IF trimmed = <<>> \/ brace_pos = 0
       THEN [some |-> FALSE, text |-> <<>>, names |-> names]
       ELSE LET sel == Trim(SubSeq(trimmed, 1, brace_pos - 1))
                rest == SubSeq(trimmed, brace_pos + 1, Len(trimmed))
                pos == RFind(rest, "}")
                declarations == IF pos # 0
                                THEN Trim(SubSeq(rest, 1, pos - 1))
                                ELSE Trim(rest)
                Format(scoped_selector) ==
                    [some |-> TRUE,
                     text |-> scoped_selector.text \o <<" ", "{", " ">>
                              \o declarations \o <<" ", "}">>,
                     names |-> scoped_selector.names]
            IN Format(scope_selector(sel, sc, names))

\* the locals of minify_css before the loop
MinifyStart == [i |-> 1, result |-> <<>>, last_was_space |-> FALSE]

\* the three nested conditions under which a whitespace character is
\* pushed, as one space
PushesSpace_after_any(st) ==
    /\ ~st.last_was_space
    /\ st.result # <<>>

PushesSpace(st) ==
    /\ ~st.last_was_space
    /\ st.result # <<>>
    /\ st.result[Len(st.result)] \notin {"{", "}", ":", ";", ","}

\* one iteration of the while loop of minify_css
MinifyStep(t, st) ==
    IF OpensComment(t, st.i)
    THEN [st EXCEPT !.i = SkipComment(t, st.i + 2)]
    ELSE LET ch == t[st.i]
         IN IF IsWhitespace(ch)
            THEN IF PushesSpace(st)
                 THEN [i |-> st.i + 1,
                       result |-> Append(st.result, " "),
                       last_was_space |-> TRUE]
                 ELSE [st EXCEPT !.i = @ + 1]
            ELSE [i |-> st.i + 1,
                  result |-> Append(st.result, ch),
                  last_was_space |-> FALSE]

RECURSIVE MinifyLoop(_, _)
MinifyLoop(t, st) ==
    IF st.i > Len(t) THEN st ELSE MinifyLoop(t, MinifyStep(t, st))

\* minify_css
minify_css(t) == MinifyLoop(t, MinifyStart).result

\* the for loop of parse_and_scope over the rules
RECURSIVE ScopeRules(_, _, _, _, _)
ScopeRules(rules, sc, mini, scoped_css, names) ==
    IF rules = <<>> THEN [scoped |-> scoped_css, class_names |-> names]
    ELSE LET PushRule(r) ==
                 IF r.some
                 THEN ScopeRules(Tail(rules), sc, mini,
                                 scoped_css \o r.text \o (IF mini THEN <<>> ELSE <<NL>>),
                                 r.names)
                 ELSE ScopeRules(Tail(rules), sc, mini, scoped_css, names)
         IN PushRule(scope_rule(Head(rules), sc, names))

\* parse_and_scope without the newline after a rule, and without the last step
parse_and_scope_no_newline(t, sc, mini) ==
    LET ScopedCss(out) ==
            [scoped |-> IF mini THEN minify_css(out.scoped) ELSE out.scoped,
             class_names |-> out.class_names]
    IN ScopedCss(ScopeRules(parse_css_rules(t), sc, TRUE, <<>>, {}))

parse_and_scope_unminified(t, sc, mini) ==
    LET ScopedCss(out) ==
            [scoped |-> out.scoped, class_names |-> out.class_names]
    IN ScopedCss(ScopeRules(parse_css_rules(t), sc, mini, <<>>, {}))

\* parse_and_scope: ScopedCss { scoped, class_names }
parse_and_scope(t, sc, mini) ==
    LET ScopedCss(out) ==
            [scoped |-> IF mini THEN minify_css(out.scoped) ELSE out.scoped,
             class_names |-> out.class_names]
    IN ScopedCss(ScopeRules(parse_css_rules(t), sc, mini, <<>>, {}))

-----------------------------------------------------------------------------
(* SpecScope: one call of parse_and_scope, as scoped_style_impl makes it   *)
(* on the text of a stylesheet.                                           *)

MaxBlocks == 3

\* the scope token the macros pass: "sc_" and base-62 digits
Scope == <<"s", "c", "_", "0">>

\* the selectors and the declaration bodies the stylesheets are made of
Selectors ==
    { <<".", "a">>,
      <<"b", "#", "e">>,
      <<"[", "b", ",", ".", "d", "]">> }
Declarations ==
    { <<"x">>,
      <<".", "f", "/", "*", "*", "/">>,
      <<"/", "/", "*", "*", "/", "*">> }

\* a rule block with both braces, and one whose opening brace is missing
BracedBlock(sel, decl) == sel \o <<"{">> \o decl \o <<"}">>
UnopenedBlock(sel, decl) == sel \o <<" ">> \o decl \o <<"}">>
\* whitespace between the rules
BlankBlock == <<" ", NL>>
Blocks ==
    {BracedBlock(sel, decl) : sel \in Selectors, decl \in Declarations}
    \cup {UnopenedBlock(sel, decl) : sel \in Selectors, decl \in Declarations}
    \cup {BlankBlock}

Sheets == UNION {[1..k -> Blocks] : k \in 0..MaxBlocks}

InitScope ==
    /\ RegIdle /\ ConcIdle /\ HashIdle /\ SelIdle /\ ToolsIdle
    /\ parts \in Sheets
    /\ in_css = Flatten(parts)
    /\ in_scope = Scope
    /\ in_minify \in BOOLEAN
    /\ scoped = <<>>
    /\ class_names = {}
    /\ cpc = "start"

ParseAndScope ==
    /\ cpc = "start"
    /\ \E out \in {parse_and_scope(in_css, in_scope, in_minify)} :
          /\ scoped' = out.scoped
          /\ class_names' = out.class_names
    /\ cpc' = "done"
    /\ UNCHANGED <<parts, in_css, in_scope, in_minify>>
    /\ UNCHANGED outsideCss

NextScope == ParseAndScope

SpecScope == InitScope /\ [][NextScope]_vars

-----------------------------------------------------------------------------
(* SpecSelector: one call of scope_selector on a selector text *)

MaxSelLen == 4

SelAlphabet == {"a", "1", ".", "#", " ", ",", "[", "]", ":", ">"}
SelectorTexts == TextsUpTo(SelAlphabet, MaxSelLen)

InitSelector ==
    /\ RegIdle /\ ConcIdle /\ HashIdle /\ ToolsIdle
    /\ parts = <<>>
    /\ in_css = <<>>
    /\ in_minify = FALSE
    /\ scoped = <<>>
    /\ class_names = {}
    /\ cpc = "idle"
    /\ in_scope = Scope
    /\ in_selector \in SelectorTexts
    /\ rewritten = <<>>
    /\ sel_names = {}
    /\ spc = "start"

ScopeSelector ==
    /\ spc = "start"
    /\ \E out \in {scope_selector(in_selector, in_scope, {})} :
          /\ rewritten' = out.text
          /\ sel_names' = out.names
    /\ spc' = "done"
    /\ UNCHANGED <<in_selector, in_scope>>
    /\ UNCHANGED outsideSel

NextSelector == ScopeSelector

SpecSelector == InitSelector /\ [][NextSelector]_vars

-----------------------------------------------------------------------------
(* Stylesheet text as the specification describes it *)

\* t occurs in u as a contiguous run of characters
IsSubstring(t, u) ==
    \E k \in 0..(Len(u) - Len(t)) : SubSeq(u, k + 1, k + Len(t)) = t

\* how many times the character ch occurs in t
Count(t, ch) == Cardinality({k \in 1..Len(t) : t[k] = ch})

\* the index of the first "*/" at or after k, 0 when there is none
CommentClose(t, k) ==
    IF \E j \in k..(Len(t) - 1) : t[j] = "*" /\ t[j + 1] = "/"
    THEN CHOOSE j \in k..(Len(t) - 1) :
            /\ t[j] = "*" /\ t[j + 1] = "/"
            /\ \A h \in k..(j - 1) : ~(t[h] = "*" /\ t[h + 1] = "/")
    ELSE 0

\* every comment of t is closed
RECURSIVE CommentsClosed(_)
CommentsClosed(t) ==
    IF Len(t) < 2 THEN TRUE
    ELSE IF t[1] = "/" /\ t[2] = "*"
    THEN /\ CommentClose(t, 3) # 0
         /\ CommentsClosed(SubSeq(t, CommentClose(t, 3) + 2, Len(t)))
    ELSE CommentsClosed(Tail(t))

\* t with its (closed) comments taken out
RECURSIVE WithoutComments(_)
WithoutComments(t) ==
    IF Len(t) < 2 THEN t
    ELSE IF t[1] = "/" /\ t[2] = "*"
    THEN IF CommentClose(t, 3) = 0 THEN <<>>
         ELSE WithoutComments(SubSeq(t, CommentClose(t, 3) + 2, Len(t)))
    ELSE <<Head(t)>> \o WithoutComments(Tail(t))

\* a well-formed rule: selector { declarations }, one pair of braces, the
\* selector not blank, comments allowed and closed
IsWellFormedRule(t) ==
    /\ CommentsClosed(t)
    /\ LET w == WithoutComments(t)
       IN /\ Count(w, "{") = 1
          /\ Count(w, "}") = 1
          /\ w[Len(w)] = "}"
          /\ \E k \in 1..Len(w) :
                /\ w[k] = "{"
                /\ \E h \in 1..(k - 1) : w[h] \notin {" ", "\n", "\t", "\r"}

\* a rule block whose opening brace is missing, like "a }"
IsUnopenedRule(t) ==
    /\ CommentsClosed(t)
    /\ LET w == WithoutComments(t)
       IN /\ Count(w, "{") = 0
          /\ Count(w, "}") = 1
          /\ w[Len(w)] = "}"

\* what a rule, scoped on its own, contributes to the output
ScopedAlone(t) ==
    LET out == parse_and_scope(t, in_scope, in_minify).scoped
    IN IF out # <<>> /\ out[Len(out)] = NL
       THEN SubSeq(out, 1, Len(out) - 1)
       ELSE out

\* C7: when one block of the stylesheet misses its opening brace and all the
\* others are well-formed rules, every one of the others, before or after
\* the broken block, appears scoped in the output of parse_and_scope.
C7_OnlyUnopenedRuleDropped ==
    cpc = "done" =>
        \A k \in 1..Len(parts) :
            (/\ IsUnopenedRule(parts[k])
             /\ \A j \in 1..Len(parts) : j # k => IsWellFormedRule(parts[j]))
            => \A j \in 1..Len(parts) :
                  j # k => /\ ScopedAlone(parts[j]) # <<>>
                           /\ IsSubstring(ScopedAlone(parts[j]), scoped)

\* C8: for a stylesheet made of well-formed rules, with or without minify,
\* the output of parse_and_scope has as many '{' as '}'.
C8_BracesBalanced ==
    (cpc = "done" /\ \A k \in 1..Len(parts) : IsWellFormedRule(parts[k]))
        => Count(scoped, "{") = Count(scoped, "}")

\* the attribute selectors of a selector text, as <<first, last>> index
\* pairs: each runs from a '[' outside the previous ones to the next ']'
RECURSIVE AttrSpans(_, _)
AttrSpans(t, k) ==
    IF \E i \in k..Len(t) : t[i] = "[" /\ \E j \in (i + 1)..Len(t) : t[j] = "]"
    THEN LET i == CHOOSE i \in k..Len(t) :
                     /\ t[i] = "["
                     /\ \A h \in k..(i - 1) : t[h] # "["
             j == CHOOSE j \in (i + 1)..Len(t) :
                     /\ t[j] = "]"
                     /\ \A h \in (i + 1)..(j - 1) : t[h] # "]"
         IN {<<i, j>>} \cup AttrSpans(t, j + 1)
    ELSE {}

\* the names N of the class selectors .N of a selector text: a dot outside
\* the attribute selectors, followed by a non-empty name
ClassNameAt(t, i) ==
    LET stop == CHOOSE e \in (i + 1)..(Len(t) + 1) :
                    /\ \A h \in (i + 1)..(e - 1) :
                          t[h] \in LetterChars \cup DigitChars \cup {"-", "_"}
                    /\ e <= Len(t) =>
                          t[e] \notin LetterChars \cup DigitChars \cup {"-", "_"}
    IN SubSeq(t, i + 1, stop - 1)
ClassSelectorsIn(t) ==
    {ClassNameAt(t, i) :
        i \in {i \in 1..Len(t) :
                  /\ t[i] = "."
                  /\ \A sp \in AttrSpans(t, 1) : ~(sp[1] < i /\ i < sp[2])
                  /\ ClassNameAt(t, i) # <<>>}}

\* the selector parts of the rules parse_and_scope emits for the input
EmittedSelectors ==
    LET rules == parse_css_rules(in_css)
    IN {SubSeq(rules[k], 1, Find(rules[k], "{") - 1) :
           k \in {k \in 1..Len(rules) : Find(rules[k], "{") # 0}}

ExpectedClassNames == UNION {ClassSelectorsIn(sel) : sel \in EmittedSelectors}

\* C9: class_names is exactly the set of the names N of the class selectors
\* .N in the selector parts of the emitted rules, each of them is in the
\* output as .<scope>_N, and ids, elements and declarations add nothing.
C9_ClassNamesExact ==
    cpc = "done" =>
        /\ class_names = ExpectedClassNames
        /\ \A N \in ExpectedClassNames :
              IsSubstring(<<".">> \o in_scope \o <<"_">> \o N, scoped)

\* C10: every attribute selector [...] of the selector given to
\* scope_selector is in the rewritten selector, character for character.
C10_AttributeSelectorsUnchanged ==
    spc = "done" =>
        \A sp \in AttrSpans(in_selector, 1) :
            IsSubstring(SubSeq(in_selector, sp[1], sp[2]), rewritten)

-----------------------------------------------------------------------------
(* SpecMinify: one call of minify_css on a text *)

MaxMinPieces == 5

\* the pieces the texts are put together from: a letter, the two kinds of
\* whitespace, the characters of the comment marks, two of the characters
\* after which a space is dropped, and a whole comment
MinPieces ==
    { <<"a">>, <<" ">>, <<NL>>, <<"/">>, <<"*">>, <<"{">>, <<":">>,
      <<"/", "*", "x", "*", "/">> }

MinTexts == {Flatten(ps) : ps \in UNION {[1..k -> MinPieces] : k \in 0..MaxMinPieces}}

InitMinify ==
    /\ RegIdle /\ ConcIdle /\ HashIdle /\ CssIdle /\ SelIdle /\ ScanIdle /\ MacroIdle
    /\ in_text \in MinTexts
    /\ minified = <<>>
    /\ mpc = "start"

Minify ==
    /\ mpc = "start"
    /\ minified' = minify_css(in_text)
    /\ mpc' = "done"
    /\ UNCHANGED in_text
    /\ UNCHANGED outsideMin

NextMinify == Minify

SpecMinify == InitMinify /\ [][NextMinify]_vars

\* C11: the output of minify_css holds neither "/*" nor "*/".
C11_NoCommentMarks ==
    mpc = "done" =>
        /\ ~IsSubstring(<<"/", "*">>, minified)
        /\ ~IsSubstring(<<"*", "/">>, minified)

\* C15: the output of minify_css has no two spaces in a row, no whitespace
\* other than the space, no space at its beginning and no space directly
\* after '{', '}', ':', ';' or ','.
C15_WhitespaceCollapsed ==
    mpc = "done" =>
        /\ \A k \in 1..Len(minified) : minified[k] \notin {NL, "\t", "\r"}
        /\ \A k \in 1..Len(minified) :
              minified[k] = " " =>
                  /\ k > 1
                  /\ minified[k - 1] \notin {" ", "{", "}", ":", ";", ","}

\* a comment between two whitespace runs, after a letter: one space is left
C15_Witness ==
    /\ mpc = "done"
    /\ in_text = <<"a", " ", "/", "*", "x", "*", "/", NL, "a">>
    /\ minified = <<"a", " ", "a">>

-----------------------------------------------------------------------------
(* The output of parse_and_scope rule by rule *)

IsBlank(t) == \A k \in 1..Len(t) : t[k] \in {" ", NL, "\t", "\r"}

\* the text "<scoped selector> { <declarations> }" of a well-formed rule:
\* the selector before the brace rewritten by scope_selector, the
\* declarations between the braces, both without comments and trimmed
RuleText(t) ==
    LET w == WithoutComments(t)
        open == CHOOSE k \in 1..Len(w) : w[k] = "{"
    IN scope_selector(Trim(SubSeq(w, 1, open - 1)), in_scope, {}).text
       \o <<" ", "{", " ">>
       \o Trim(SubSeq(w, open + 1, Len(w) - 1))
       \o <<" ", "}">>

\* one RuleText and a newline for each rule, in the order of the input
RECURSIVE RuleTexts(_)
RuleTexts(ps) ==
    IF ps = <<>> THEN <<>>
    ELSE (IF IsBlank(Head(ps)) THEN <<>> ELSE RuleText(Head(ps)) \o <<NL>>)
         \o RuleTexts(Tail(ps))

\* C12: with minify = false the output of parse_and_scope is, for the rules
\* of the input in their order, the text "<scoped selector> { <declarations> }"
\* and a newline each, and nothing else; it is empty when the input has no rule.
C12_OneTextPerRuleInOrder ==
    (/\ cpc = "done"
     /\ ~in_minify
     /\ \A k \in 1..Len(parts) : IsWellFormedRule(parts[k]) \/ IsBlank(parts[k]))
        => scoped = RuleTexts(parts)

\* two different rules with whitespace between them, both in the output
C12_Witness ==
    /\ cpc = "done"
    /\ ~in_minify
    /\ Len(parts) = 3
    /\ IsWellFormedRule(parts[1]) /\ IsBlank(parts[2]) /\ IsWellFormedRule(parts[3])
    /\ RuleText(parts[1]) # RuleText(parts[3])
    /\ scoped = RuleText(parts[1]) \o <<NL>> \o RuleText(parts[3]) \o <<NL>>

\* C16: the minify flag only adds the last step: the text for minify = true is
\* minify_css of the text for minify = false, and the class names are the same.
C16_MinifyOnlyFormats ==
    cpc = "done" =>
        LET other == parse_and_scope(in_css, in_scope, ~in_minify)
        IN /\ class_names = other.class_names
           /\ in_minify => scoped = minify_css(other.scoped)
           /\ ~in_minify => other.scoped = minify_css(scoped)

\* a call with minify = true on two rules, the text not the unminified one
C16_Witness ==
    /\ cpc = "done"
    /\ in_minify
    /\ Len(parse_css_rules(in_css)) = 2
    /\ class_names # {}
    /\ scoped # parse_and_scope(in_css, in_scope, FALSE).scoped
    /\ scoped = minify_css(parse_and_scope(in_css, in_scope, FALSE).scoped)

-----------------------------------------------------------------------------
(* SpecScan: the loop of parse_css_rules, one iteration at a time *)

MaxScanLen == 5

ScanAlphabet == {"a", " ", "{", "}", "/", "*"}
ScanTexts == TextsUpTo(ScanAlphabet, MaxScanLen)

InitScan ==
    /\ RegIdle /\ ConcIdle /\ HashIdle /\ CssIdle /\ SelIdle /\ MinIdle /\ MacroIdle
    /\ scan_css \in ScanTexts
    /\ scan_st = ParseStart

\* one iteration of while let Some(ch) = chars.next()
ScanStep ==
    /\ scan_st.i <= Len(scan_css)
    /\ scan_st' = ParseStep(scan_css, scan_st)
    /\ UNCHANGED scan_css
    /\ UNCHANGED outsideScan

NextScan == ScanStep

SpecScan == InitScan /\ [][NextScan]_vars

\* the number of '{' less the number of '}' of a text
BraceDepth(t) == Count(t, "{") - Count(t, "}")

\* C13: at every step of the scan the '{' less the '}' of the accumulating
\* buffer is the brace counter, and every rule emitted so far has as many
\* '{' as '}' and at least one '{'.
C13_RulesBalanced ==
    /\ BraceDepth(scan_st.current_rule) = scan_st.brace_count
    /\ \A k \in 1..Len(scan_st.rules) :
          /\ BraceDepth(scan_st.rules[k]) = 0
          /\ Count(scan_st.rules[k], "{") >= 1

\* the scan is over, the input began with a stray '}' and a rule was emitted
C13_Witness ==
    /\ scan_st.i > Len(scan_css)
    /\ scan_css # <<>> /\ scan_css[1] = "}"
    /\ scan_st.rules # <<>>
    /\ scan_st.rules = parse_css_rules(scan_css)

-----------------------------------------------------------------------------
(* Element selectors as the specification describes them *)

Combinators == {" ", ">", "+", "~"}

\* position i of t lies after a '[' that no ']' has closed yet
InAttribute(t, i) ==
    \E j \in 1..(i - 1) : t[j] = "[" /\ \A h \in (j + 1)..(i - 1) : t[h] # "]"

\* the longest run of letters, digits and '-' of t that starts at i
IdentAt(t, i) ==
    LET IsIdent(ch) == ch \in LetterChars \cup DigitChars \cup {"-"}
        stop == CHOOSE e \in i..(Len(t) + 1) :
                    /\ \A h \in i..(e - 1) : IsIdent(t[h])
                    /\ e <= Len(t) => ~IsIdent(t[e])
    IN SubSeq(t, i, stop - 1)

\* where an element name starts: a letter outside the attribute selectors,
\* first of the selector or directly after a combinator
ElementStarts(t) ==
    {i \in 1..Len(t) :
        /\ t[i] \in LetterChars
        /\ ~InAttribute(t, i)
        /\ i = 1 \/ t[i - 1] \in Combinators}

\* [data-scope="<scope>"]
Annotation ==
    <<"[", "d", "a", "t", "a", "-", "s", "c", "o", "p", "e", "=", "\"">>
    \o in_scope \o <<"\"", "]">>

\* how many times t occurs in u
Occurrences(t, u) ==
    Cardinality({k \in 0..(Len(u) - Len(t)) : SubSeq(u, k + 1, k + Len(t)) = t})

\* C14: in a selector branch, exactly the runs that start with a letter at
\* the beginning or directly after a combinator get the element annotation;
\* an identifier after ':' is left as it is; in a compound like div.container
\* the scoped class follows the annotation directly.
C14_ElementsAnnotatedAtStart ==
    (spc = "done" /\ \A k \in 1..Len(in_selector) : in_selector[k] # ",") =>
        LET t == in_selector
        IN /\ Occurrences(Annotation, rewritten) = Cardinality(ElementStarts(t))
           /\ \A i \in ElementStarts(t) :
                 LET name == IdentAt(t, i)
                     after == i + Len(name)
                 IN /\ IsSubstring(name \o Annotation, rewritten)
                    /\ (/\ after < Len(t)
                        /\ t[after] = "."
                        /\ ClassNameAt(t, after) # <<>>) =>
                          IsSubstring(name \o Annotation \o <<".">> \o in_scope
                                      \o <<"_">> \o ClassNameAt(t, after),
                                      rewritten)
           /\ \A i \in 1..Len(t) :
                 (t[i] = ":" /\ ~InAttribute(t, i)) =>
                     /\ IsSubstring(<<":">> \o IdentAt(t, i + 1), rewritten)
                     /\ ~IsSubstring(<<":">> \o IdentAt(t, i + 1) \o Annotation,
                                     rewritten)

\* an element after a combinator, with a pseudo-class
C14_Witness ==
    /\ spc = "done"
    /\ in_selector = <<">", "a", ":", "a">>
    /\ rewritten = <<">", "a">> \o Annotation \o <<":", "a">>

-----------------------------------------------------------------------------
(* SpecCssMacro: one expansion of css!, css_impl of macros.rs:117-146 *)

\* the literals given to css!
MacroAlphabet == {"a", ":", ";"}
MacroContents == TextsUpTo(MacroAlphabet, MaxContentLen)

\* format!(".{} {{ {} }}", scope, css_content)
WrapCss(sc, c) == <<".">> \o sc \o <<" ", "{", " ">> \o c \o <<" ", "}">>

\* css_impl up to the text it passes to ScopedStyle::new
css_impl(c, mini) ==
    LET Expand(sc) ==
            [scope |-> sc,
             wrapped_css |-> WrapCss(sc, c),
             final_css |-> IF mini
                           THEN parse_and_scope(WrapCss(sc, c), sc, TRUE).scoped
                           ELSE WrapCss(sc, c)]
    IN Expand(generate_hash(c, <<>>))

InitCssMacro ==
    /\ RegIdle /\ ConcIdle /\ HashIdle /\ CssIdle /\ SelIdle /\ MinIdle /\ ScanIdle
    /\ macro_content \in MacroContents
    /\ macro_minify \in BOOLEAN
    /\ macro_scope = <<>>
    /\ wrapped_css = <<>>
    /\ final_css = <<>>
    /\ kpc = "start"

CssImpl ==
    /\ kpc = "start"
    /\ \E out \in {css_impl(macro_content, macro_minify)} :
          /\ macro_scope' = out.scope
          /\ wrapped_css' = out.wrapped_css
          /\ final_css' = out.final_css
    /\ kpc' = "done"
    /\ UNCHANGED <<macro_content, macro_minify>>
    /\ UNCHANGED outsideMacro

NextCssMacro == CssImpl

SpecCssMacro == InitCssMacro /\ [][NextCssMacro]_vars

\* the text ".T { <content> }" for the scope token T of the expansion
DebugText ==
    <<".">> \o macro_scope \o <<" ", "{", " ">> \o macro_content \o <<" ", "}">>

\* C17: the text css! registers under the token T is ".T { <content> }" when
\* minify is disabled and minify_css of that text when minify is enabled, so
\* that both target the selector .T.
C17_SameSelectorInBothProfiles ==
    kpc = "done" =>
        /\ ~macro_minify => final_css = DebugText
        /\ macro_minify => final_css = minify_css(DebugText)

-----------------------------------------------------------------------------
(* Call sites and renders on the global registry (SpecConc) *)

\* the statements of ScopedStyle::new
InNew == {"new_lock", "reg_entry", "reg_insert", "reg_push", "new_unlock"}

\* the threads that are running the initialiser of call site s
Initialising(s) == {t \in Threads : in_site[t] = s /\ pc[t] \in InNew}

\* a call site registers once: its initialiser runs in one thread at a time,
\* while the lazy_static is "running", and with its own pair
RegistersOnce ==
    \A s \in Sites :
        /\ Cardinality(Initialising(s)) = (IF once[s] = "running" THEN 1 ELSE 0)
        /\ \A t \in Initialising(s) : arg[t] = <<SiteScope(s), SiteCss(s)>>
        /\ once[s] = "complete" => SiteScope(s) \in DOMAIN styles

\* an initialised call site stays initialised, and evaluating it again
\* leaves the registry as it is
LaterEvaluationsIdle ==
    \A s \in Sites :
        /\ once[s] = "complete" => once'[s] = "complete"
        /\ \A t \in Threads :
              (/\ pc[t] = "site_deref"
               /\ in_site[t] = s
               /\ once[s] = "complete"
               /\ pc'[t] # pc[t])
              => /\ pc'[t] = "inj_lock"
                 /\ styles' = styles
                 /\ order' = order

\* the component of call site s is returning from inject_styles in thread t
RenderReturns(t, s) == pc[t] = "inj_unlock" /\ in_site[t] = s

\* C18 as stated: every call site registers once, and (clear is never called
\* here) the text every render of its component injects holds the
\* component's own scoped CSS.
C18_RenderInjectsOwnCss ==
    /\ RegistersOnce
    /\ \A t \in Threads, s \in Sites :
          RenderReturns(t, s) => IsSubstring(SiteCss(s) \o <<NL>>, injected[t])

\* the text under the token of call site s is replaced only by the insert of
\* a registration that is not the site's own
ReplacedOnlyByOtherRegistration ==
    \A s \in Sites :
        (/\ SiteScope(s) \in DOMAIN styles
         /\ styles[SiteScope(s)] = SiteCss(s)
         /\ styles'[SiteScope(s)] # SiteCss(s))
        => \E t \in Threads :
              /\ pc[t] = "reg_insert"
              /\ pc'[t] # pc[t]
              /\ arg[t][1] = SiteScope(s)
              /\ arg[t][2] # SiteCss(s)
              /\ in_site[t] # s

\* C18 as amended: every call site registers once and later evaluations
\* leave the registry alone; the text every render injects holds the text
\* registered under the component's token, and that text is the component's
\* own scoped CSS until a registration of another text under the same token
\* replaces it.
C18_RenderInjectsRegisteredCss ==
    /\ [](/\ RegistersOnce
          /\ \A t \in Threads, s \in Sites :
                RenderReturns(t, s) =>
                    /\ once[s] = "complete"
                    /\ IsSubstring(styles[SiteScope(s)] \o <<NL>>, injected[t]))
    /\ [][LaterEvaluationsIdle /\ ReplacedOnlyByOtherRegistration]_vars

\* thread 1 renders the component of s1 a second time, after the site was
\* initialised, and its text holds the css of s1
C18_Witness ==
    /\ RenderReturns(1, "s1")
    /\ calls[1] = 2
    /\ calls[2] = 0
    /\ once["s1"] = "complete"
    /\ order = <<SiteScope("s1")>>
    /\ injected[1] = SiteCss("s1") \o <<NL>>

====
